---- MODULE Spec2Model ----
(***************************************************************************)
(* A model of src/tracker.py: the price-candidate extractor                *)
(* (extract_price_candidates), the comparator (compare_and_alert) and the  *)
(* run loop (main) with its state persistence.                             *)
(*                                                                         *)
(* Text is a sequence of one-character strings.  Money is an integer       *)
(* number of thousandths of a dollar (Unit per dollar), so that            *)
(* round(c, 2) has something to round.  Regular expressions are modelled   *)
(* by matchers that follow Python's leftmost, ordered-alternative, greedy  *)
(* search; PRICE_RE's second inline (?i) is a global flag (Python <= 3.10  *)
(* accepts it anywhere in the pattern), so both alternatives ignore case.  *)
(***************************************************************************)
EXTENDS Integers, Sequences, FiniteSets, TLC

VARIABLES
  \* extractor: one call of extract_price_candidates
  markup,      \* the page, as a sequence of parts (text runs and script elements)
  ex_pc,       \* "call" before the call, "returned" or "raised" after it
  ex_out,      \* the list the call returned
  \* comparator: compare_and_alert, run and re-run
  cmp_store,   \* the store configuration
  cmp_prev,    \* the previous record ({} when absent)
  cmp_prices,  \* now_prices
  cmp_pc,      \* "call", "returned", "raised", "returned2", "raised2"
  cmp_ret,     \* what the first call returned: the new record and `changed'
  cmp_reasons, \* alert_reasons of the first call
  cmp_posts,   \* number of post_to_discord invocations of the first call
  cmp_ret2,    \* the same three for the second call, whose prev is the stored record
  cmp_reasons2,
  cmp_posts2,
  \* main: the run loop
  conf,        \* conf["retailers"]
  pc,          \* position in main
  idx,         \* index of the retailer being processed (1-based)
  state,       \* the in-process state map: key -> record
  state_file,  \* durable STATE_FILE: "missing", "corrupt" or a state map
  tmp_file,    \* STATE_FILE + ".tmp": "missing", "partial" or a state map
  html,        \* the page fetched for the current retailer
  prices,      \* extract_price_candidates(html) for the current retailer
  new_record,  \* compare_and_alert's record for the current retailer
  reasons,     \* alert_reasons of the current compare_and_alert
  clock,       \* int(time.time()), in ticks: every loop iteration and every new run takes one
  cycle,       \* number of the current run of main (1-based)
  \* history of the runs, read only by the properties
  h_start_file,  \* state_file as it was when the current run started
  h_writes,      \* os.replace calls of the current run
  h_checked,     \* indices of the retailers whose check was started in this run
  h_delayed,     \* whether time.sleep ran since the last fetch
  h_fetches,     \* fetches of the current run
  h_pending,     \* per retailer index: the alert whose dispatch failed last
  h_alert        \* alert_reasons of the compare_and_alert call of this iteration

ex_vars == <<markup, ex_pc, ex_out>>
cmp_vars == <<cmp_store, cmp_prev, cmp_prices, cmp_pc, cmp_ret, cmp_reasons,
              cmp_posts, cmp_ret2, cmp_reasons2, cmp_posts2>>
main_vars == <<conf, pc, idx, state, state_file, tmp_file, html, prices,
               new_record, reasons, clock, cycle>>
hist_vars == <<h_start_file, h_writes, h_checked, h_delayed, h_fetches,
               h_pending, h_alert>>
vars == <<ex_vars, cmp_vars, main_vars, hist_vars>>

(***************************************************************************)
(* Characters and numbers                                                  *)
(***************************************************************************)
Unit == 10 * 10 * 10

DigitChars == <<"0", "1", "2", "3", "4", "5", "6", "7", "8", "9">>
Digit == {DigitChars[i] : i \in 1..10}
UpperChars == <<"A", "B", "C", "D", "E", "F", "G", "H", "I", "J", "K", "L", "M",
                "N", "O", "P", "Q", "R", "S", "T", "U", "V", "W", "X", "Y", "Z">>
LowerChars == <<"a", "b", "c", "d", "e", "f", "g", "h", "i", "j", "k", "l", "m",
                "n", "o", "p", "q", "r", "s", "t", "u", "v", "w", "x", "y", "z">>
Upper == {UpperChars[i] : i \in 1..26}
Lower == {LowerChars[i] : i \in 1..26}

\* \w of Python's re on ASCII text
IsWordChar(c) == c \in Digit \/ c \in Upper \/ c \in Lower \/ c = "_"
\* \s of Python's re on ASCII text
IsSpace(c) == c \in {" ", "\t", "\n", "\r", "\f"}
\* case folding of re.IGNORECASE on ASCII text
Fold(c) ==
  IF c \in Upper THEN LowerChars[CHOOSE i \in 1..26 : UpperChars[i] = c] ELSE c
DigitVal(c) == (CHOOSE i \in 1..10 : DigitChars[i] = c) - 1

RECURSIVE Pow10(_)
Pow10(k) == IF k = 0 THEN 1 ELSE 10 * Pow10(k - 1)

\* s[a..b-1] of a 1-based sequence: Python's s[a-1:b-1]
Slice(s, a, b) == SubSeq(s, a, b - 1)

RECURSIVE Concat(_)
Concat(ss) == IF ss = <<>> THEN <<>> ELSE Head(ss) \o Concat(Tail(ss))

SelectNot(s, c) == SelectSeq(s, LAMBDA x : x # c)

\* the literal w at position p of s, ignoring case
LitAt(s, p, w) ==
  /\ p >= 1
  /\ p + Len(w) - 1 <= Len(s)
  /\ \A k \in 1..Len(w) : Fold(s[p + k - 1]) = Fold(w[k])

\* the literal w at position p of s, case kept ("ld+json" in t)
ExactAt(s, p, w) ==
  /\ p + Len(w) - 1 <= Len(s)
  /\ \A k \in 1..Len(w) : s[p + k - 1] = w[k]
Contains(s, w) == \E p \in 1..(Len(s) + 1) : ExactAt(s, p, w)
ContainsFold(s, w) == \E p \in 1..(Len(s) + 1) : LitAt(s, p, w)

\* \b just before position p (p = Len(s) + 1: at the end)
WordBoundary(s, p) ==
  LET before == p > 1 /\ p - 1 <= Len(s) /\ IsWordChar(s[p - 1])
      after == p >= 1 /\ p <= Len(s) /\ IsWordChar(s[p])
  IN before # after

\* \s* from position p: the position after the longest run of whitespace
SkipSpace(s, p) ==
  IF p > Len(s) THEN p
  ELSE CHOOSE q \in p..(Len(s) + 1) :
         /\ \A r \in p..(q - 1) : IsSpace(s[r])
         /\ q = Len(s) + 1 \/ ~IsSpace(s[q])

IsDigitAt(s, p) == p >= 1 /\ p <= Len(s) /\ s[p] \in Digit

(***************************************************************************)
(* float(): Python's parse of a decimal literal                            *)
(***************************************************************************)
RECURSIVE IntVal(_)
IntVal(ds) ==
  IF ds = <<>> THEN 0
  ELSE IntVal(SubSeq(ds, 1, Len(ds) - 1)) * 10 + DigitVal(ds[Len(ds)])

\* the fraction digits ds as a number of Units; digits past the third are below
\* the model's resolution
FracVal(ds) ==
  LET n == IF Len(ds) < 3 THEN Len(ds) ELSE 3
  IN IntVal(SubSeq(ds, 1, n)) * (Unit \div Pow10(n))

RECURSIVE LStrip(_)
LStrip(s) == IF s # <<>> /\ IsSpace(Head(s)) THEN LStrip(Tail(s)) ELSE s
RECURSIVE RStrip(_)
RStrip(s) ==
  IF s # <<>> /\ IsSpace(s[Len(s)]) THEN RStrip(SubSeq(s, 1, Len(s) - 1)) ELSE s

FloatError == [ok |-> FALSE, finite |-> FALSE, val |-> 0]
FloatOf(v) == [ok |-> TRUE, finite |-> TRUE, val |-> v]
FloatNonFinite == [ok |-> TRUE, finite |-> FALSE, val |-> 0]

NonFiniteWords ==
  {<<"n", "a", "n">>, <<"i", "n", "f">>,
   <<"i", "n", "f", "i", "n", "i", "t", "y">>}

\* float(s) for a str s: surrounding whitespace stripped, an optional sign, then
\* digits with at most one point and at least one digit, or nan/inf/infinity;
\* anything else raises ValueError (ok = FALSE).  Exponents and digit-group
\* underscores are not written by any input of the model.
ParseFloat(s) ==
  LET t == RStrip(LStrip(s))
      signed == t # <<>> /\ Head(t) \in {"+", "-"}
      neg == t # <<>> /\ Head(t) = "-"
      body == IF signed THEN Tail(t) ELSE t
      dots == {i \in 1..Len(body) : body[i] = "."}
      dot == IF dots = {} THEN Len(body) + 1 ELSE CHOOSE i \in dots : TRUE
      ip == SubSeq(body, 1, dot - 1)
      fp == SubSeq(body, dot + 1, Len(body))
      wellFormed ==
        /\ Cardinality(dots) <= 1
        /\ \A i \in 1..Len(body) : body[i] \in Digit \/ body[i] = "."
        /\ Len(ip) + Len(fp) >= 1
      mag == IntVal(ip) * Unit + FracVal(fp)
  IN IF wellFormed THEN FloatOf(IF neg THEN 0 - mag ELSE mag)
     ELSE IF \E w \in NonFiniteWords : Len(w) = Len(body) /\ LitAt(body, 1, w)
          THEN FloatNonFinite
          ELSE FloatError

\* c as it is, not rounded
round2_none(c) == c

\* round(c, 2): to the nearest hundredth.  An exact decimal tie (a five in the
\* third place) goes in Python to whichever neighbour the binary value is nearer;
\* no input of the model holds one, and it is resolved to the even hundredth here.
round2(c) ==
  LET cent == Unit \div 100
      lo == (c \div cent) * cent
      r == c - lo
  IN IF 2 * r < cent THEN lo
     ELSE IF 2 * r > cent THEN lo + cent
     ELSE IF (lo \div cent) % 2 = 0 THEN lo ELSE lo + cent

Min(S) == CHOOSE x \in S : \A y \in S : x <= y
RECURSIVE sorted(_)
sorted(S) == IF S = {} THEN <<>> ELSE <<Min(S)>> \o sorted(S \ {Min(S)})
Range(s) == {s[i] : i \in 1..Len(s)}

(***************************************************************************)
(* PRICE_RE and EXCLUDE_NEAR                                               *)
(***************************************************************************)
\* [0-9]{1,3}, greedy: how many digits it takes at p (0: no match)
DigitRun3(s, p) ==
  IF ~IsDigitAt(s, p) THEN 0
  ELSE IF ~IsDigitAt(s, p + 1) THEN 1
  ELSE IF ~IsDigitAt(s, p + 2) THEN 2
  ELSE 3

\* (?:,[0-9]{3})*, greedy, from q: the position after it
RECURSIVE CommaGroups(_, _)
CommaGroups(s, q) ==
  IF /\ q <= Len(s)
     /\ s[q] = ","
     /\ IsDigitAt(s, q + 1) /\ IsDigitAt(s, q + 2) /\ IsDigitAt(s, q + 3)
  THEN CommaGroups(s, q + 4)
  ELSE q

\* (?:\.[0-9]{2})?, greedy, from q: the position after it
CentsGroup(s, q) ==
  IF q <= Len(s) /\ s[q] = "." /\ IsDigitAt(s, q + 1) /\ IsDigitAt(s, q + 2)
  THEN q + 3
  ELSE q

\* ([0-9]{1,3}(?:,[0-9]{3})*(?:\.[0-9]{2})?) at p: the position after the group,
\* 0 when it does not match.  Everything after the first digit is optional, so
\* the greedy choice is the one the search keeps.
AmountEnd(s, p) ==
  IF DigitRun3(s, p) = 0 THEN 0
  ELSE CentsGroup(s, CommaGroups(s, p + DigitRun3(s, p)))

NoMatch == [start |-> 0, end |-> 0, raw |-> <<>>]
Match(s, p, g) ==
  [start |-> p, end |-> AmountEnd(s, g), raw |-> Slice(s, g, AmountEnd(s, g))]

USD == <<"U", "S", "D">>

\* PRICE_RE tried at position p: alternative 1 with its optional USD prefix, then
\* without it, then alternative 2.  raw is m.group(1) or m.group(2).
PRICE_RE(s, p) ==
  LET usd == WordBoundary(s, p) /\ LitAt(s, p, USD)
      q == SkipSpace(s, p + 3)
      g1 == SkipSpace(s, q + 1)
      g0 == SkipSpace(s, p + 1)
  IN IF usd /\ q <= Len(s) /\ s[q] = "$" /\ AmountEnd(s, g1) # 0
       THEN Match(s, p, g1)
     ELSE IF p <= Len(s) /\ s[p] = "$" /\ AmountEnd(s, g0) # 0
       THEN Match(s, p, g0)
     ELSE IF usd /\ AmountEnd(s, q) # 0
       THEN Match(s, p, q)
     ELSE NoMatch

\* the positions at which PRICE_RE matches
MatchStarts(s) == {p \in 1..Len(s) : PRICE_RE(s, p) # NoMatch}

\* PRICE_RE.finditer(s) from position p: the non-overlapping matches, leftmost
\* first; the search resumes where the last match ended
RECURSIVE finditer(_, _)
finditer(s, p) ==
  LET from == {q \in MatchStarts(s) : q >= p}
  IN IF from = {} THEN <<>>
     ELSE <<PRICE_RE(s, Min(from))>> \o finditer(s, PRICE_RE(s, Min(from)).end)

\* the alternatives of EXCLUDE_NEAR, optional parts expanded
DenyWords ==
  {<<"G", "B">>, <<"m", "A", "h">>, <<"n", "i", "t">>, <<"n", "i", "t", "s">>,
   <<"i", "n", "c", "h">>, <<"i", "n", ".">>, <<"p", "p", "i">>,
   <<"r", "e", "v", "i", "e", "w">>, <<"r", "e", "v", "i", "e", "w", "s">>,
   <<"r", "a", "t", "i", "n", "g">>, <<"r", "a", "t", "i", "n", "g", "s">>,
   <<"p", "o", "i", "n", "t">>, <<"p", "o", "i", "n", "t", "s">>,
   <<"/", "m", "o">>, <<"p", "e", "r", " ", "m", "o", "n", "t", "h">>, <<"%">>,
   <<"t", "r", "a", "d", "e", "-", "i", "n">>,
   <<"t", "r", "a", "d", "e", " ", "i", "n">>,
   <<"t", "r", "a", "d", "e", "i", "n">>}

\* EXCLUDE_NEAR.search(context) is not None: \b(word)\b somewhere, ignoring case
EXCLUDE_NEAR(context) ==
  \E p \in 1..Len(context) : \E w \in DenyWords :
    /\ LitAt(context, p, w)
    /\ WordBoundary(context, p)
    /\ WordBoundary(context, p + Len(w))

window == 40

\* html[start:end] around the match m
ContextOf(h, m) ==
  LET start == IF m.start - window < 1 THEN 1 ELSE m.start - window
      end == IF m.end + window > Len(h) + 1 THEN Len(h) + 1 ELSE m.end + window
  IN Slice(h, start, end)

(***************************************************************************)
(* Parsed markup: what BeautifulSoup and json.loads hand to the extractor  *)
(***************************************************************************)
\* A JSON value as json.loads returns it; str is Python's str(v)
JScalar(str) == [kind |-> "scalar", str |-> str, keys |-> <<>>, vals |-> <<>>]
JDict(keys, vals, str) == [kind |-> "dict", str |-> str, keys |-> keys, vals |-> vals]
JList(vals, str) == [kind |-> "list", str |-> str, keys |-> <<>>, vals |-> vals]

LoadsError == [ok |-> FALSE, value |-> JScalar(<<>>)]
LoadsOk(v) == [ok |-> TRUE, value |-> v]

\* a run of text outside any script element
TextPart(t) ==
  [kind |-> "text", text |-> t, type |-> <<>>, loads |-> LoadsError]
\* a script element: its source text, its type attribute, and what
\* json.loads(tag.string or "") gives for its body
ScriptPart(t, type, body, loads) ==
  [kind |-> "script", text |-> t, type |-> type, loads |-> loads]

\* the raw html the parts were parsed from
Render(m) == Concat([i \in 1..Len(m) |-> m[i].text])

(***************************************************************************)
(* extract_price_candidates                                                *)
(***************************************************************************)
PRICE_KEYS == {"price", "priceAmount", "lowPrice", "highPrice"}

\* try: candidates.append(float(x.replace(",", ""))) except Exception: pass
Coerce(x) ==
  LET f == ParseFloat(SelectNot(x, ","))
  IN IF f.ok THEN <<f>> ELSE <<>>

\* walk(obj): the candidates it appends, in order
RECURSIVE walk(_)
walk(obj) ==
  IF obj.kind = "dict" THEN
    Concat([i \in 1..Len(obj.keys) |->
      (IF obj.keys[i] \in PRICE_KEYS THEN Coerce(obj.vals[i].str) ELSE <<>>)
        \o walk(obj.vals[i])])
  ELSE IF obj.kind = "list" THEN
    Concat([i \in 1..Len(obj.vals) |-> walk(obj.vals[i])])
  ELSE <<>>

LdJson == <<"l", "d", "+", "j", "s", "o", "n">>

\* soup.find_all("script", type=lambda t: t and "ld+json" in t)
IsLdScript(tag) ==
  tag.kind = "script" /\ tag.type # <<>> /\ Contains(tag.type, LdJson)

\* the structured-data pass: a block json.loads rejects is skipped
StructuredPass(m) ==
  Concat([i \in 1..Len(m) |->
    IF IsLdScript(m[i]) /\ m[i].loads.ok THEN walk(m[i].loads.value) ELSE <<>>])

\* the text-pattern pass over the raw html
TextPass(h) ==
  LET ms == finditer(h, 1)
  IN Concat([i \in 1..Len(ms) |->
       IF EXCLUDE_NEAR(ContextOf(h, ms[i])) THEN <<>> ELSE Coerce(ms[i].raw)])

PriceFloor == 1100
PriceCeil == 3000

\* 1100 <= c <= 3000 (false of nan and of the infinities)
InBand(c) == c.finite /\ PriceFloor * Unit <= c.val /\ c.val <= PriceCeil * Unit

\* sorted(set(round(c, 2) for c in candidates))
Normalize(cs) == sorted({round2(cs[i].val) : i \in 1..Len(cs)})

extract_price_candidates(m) ==
  LET candidates == StructuredPass(m) \o TextPass(Render(m))
  IN Normalize(SelectSeq(candidates, InBand))

FragCommaCents ==
  TextPart(<<"$", "1", ",", "2", "9", "9", ".", "0", "0">>)

FragPlainCents ==
  TextPart(<<"$", "1", "2", "9", "9", ".", "0", "0">>)

FragPlain ==
  TextPart(<<"$", "1", "2", "9", "9">>)

FragUsdPlain ==
  TextPart(<<"U", "S", "D", " ", "1", "2", "9", "9", ".", "0", "0">>)

FragUsdComma ==
  TextPart(<<"u", "s", "d", " ", "1", ",", "4", "5", "0">>)

FragLow ==
  TextPart(<<"$", "1", ",", "1", "9", "9", ".", "9", "9">>)

FragMonthly ==
  TextPart(<<"$", "4", "9", ".", "9", "9", "/", "m", "o">>)

FragGBGlued ==
  TextPart(<<" ", "2", "5", "6", "G", "B", " ">>)

FragGBSpaced ==
  TextPart(<<" ", "2", "5", "6", " ", "G", "B", " ">>)

FragPercent ==
  TextPart(<<" ", "s", "a", "v", "e", " ", "5", "%", " ">>)

FragPerMonth ==
  TextPart(<<" ", "p", "e", "r", " ", "m", "o", "n", "t", "h", " ">>)

FragGBPad38 ==
  TextPart(<<" ", "G", "B", " ", " ", " ", " ", " ", " ", " ", " ", " ", " ", " ", " ", " ", " ", " ", " ", " ", " ", " ", " ", " ", " ", " ", " ", " ", " ", " ", " ", " ", " ", " ", " ", " ", " ", " ", " ", " ", " ">>)

FragGBPad39 ==
  TextPart(<<" ", "G", "B", " ", " ", " ", " ", " ", " ", " ", " ", " ", " ", " ", " ", " ", " ", " ", " ", " ", " ", " ", " ", " ", " ", " ", " ", " ", " ", " ", " ", " ", " ", " ", " ", " ", " ", " ", " ", " ", " ", " ">>)

FragGluedPad38 ==
  TextPart(<<"2", "5", "6", "G", "B", " ", " ", " ", " ", " ", " ", " ", " ", " ", " ", " ", " ", " ", " ", " ", " ", " ", " ", " ", " ", " ", " ", " ", " ", " ", " ", " ", " ", " ", " ", " ", " ", " ", " ", " ", " ", " ", " ">>)

FragLdPrice ==
  ScriptPart(<<"<", "s", "c", "r", "i", "p", "t", " ", "t", "y", "p", "e", "=", "\"", "a", "p", "p", "l", "i", "c", "a", "t", "i", "o", "n", "/", "l", "d", "+", "j", "s", "o", "n", "\"", ">", "{", "\"", "p", "r", "i", "c", "e", "\"", ":", " ", "\"", "1", "2", "9", "9", ".", "0", "0", "\"", "}", "<", "/", "s", "c", "r", "i", "p", "t", ">">>,
    <<"a", "p", "p", "l", "i", "c", "a", "t", "i", "o", "n", "/", "l", "d", "+", "j", "s", "o", "n">>,
    <<"{", "\"", "p", "r", "i", "c", "e", "\"", ":", " ", "\"", "1", "2", "9", "9", ".", "0", "0", "\"", "}">>,
    LoadsOk(JDict(<<"price">>, <<JScalar(<<"1", "2", "9", "9", ".", "0", "0">>)>>, <<"{", "'", "p", "r", "i", "c", "e", "'", ":", " ", "'", "1", "2", "9", "9", ".", "0", "0", "'", "}">>)))

FragLdOffers ==
  ScriptPart(<<"<", "s", "c", "r", "i", "p", "t", " ", "t", "y", "p", "e", "=", "\"", "a", "p", "p", "l", "i", "c", "a", "t", "i", "o", "n", "/", "l", "d", "+", "j", "s", "o", "n", "\"", ">", "{", "\"", "o", "f", "f", "e", "r", "s", "\"", ":", " ", "[", "{", "\"", "l", "o", "w", "P", "r", "i", "c", "e", "\"", ":", " ", "\"", "1", ",", "1", "9", "9", ".", "9", "9", "\"", ",", " ", "\"", "h", "i", "g", "h", "P", "r", "i", "c", "e", "\"", ":", " ", "3", "0", "0", "0", ".", "0", "0", "4", "}", ",", " ", "{", "\"", "p", "r", "i", "c", "e", "\"", ":", " ", "1", "2", "9", "9", ".", "9", "9", "9", "}", "]", "}", "<", "/", "s", "c", "r", "i", "p", "t", ">">>,
    <<"a", "p", "p", "l", "i", "c", "a", "t", "i", "o", "n", "/", "l", "d", "+", "j", "s", "o", "n">>,
    <<"{", "\"", "o", "f", "f", "e", "r", "s", "\"", ":", " ", "[", "{", "\"", "l", "o", "w", "P", "r", "i", "c", "e", "\"", ":", " ", "\"", "1", ",", "1", "9", "9", ".", "9", "9", "\"", ",", " ", "\"", "h", "i", "g", "h", "P", "r", "i", "c", "e", "\"", ":", " ", "3", "0", "0", "0", ".", "0", "0", "4", "}", ",", " ", "{", "\"", "p", "r", "i", "c", "e", "\"", ":", " ", "1", "2", "9", "9", ".", "9", "9", "9", "}", "]", "}">>,
    LoadsOk(JDict(<<"offers">>, <<JList(<<JDict(<<"lowPrice", "highPrice">>, <<JScalar(<<"1", ",", "1", "9", "9", ".", "9", "9">>), JScalar(<<"3", "0", "0", "0", ".", "0", "0", "4">>)>>, <<"{", "'", "l", "o", "w", "P", "r", "i", "c", "e", "'", ":", " ", "'", "1", ",", "1", "9", "9", ".", "9", "9", "'", ",", " ", "'", "h", "i", "g", "h", "P", "r", "i", "c", "e", "'", ":", " ", "3", "0", "0", "0", ".", "0", "0", "4", "}">>), JDict(<<"price">>, <<JScalar(<<"1", "2", "9", "9", ".", "9", "9", "9">>)>>, <<"{", "'", "p", "r", "i", "c", "e", "'", ":", " ", "1", "2", "9", "9", ".", "9", "9", "9", "}">>)>>, <<"[", "{", "'", "l", "o", "w", "P", "r", "i", "c", "e", "'", ":", " ", "'", "1", ",", "1", "9", "9", ".", "9", "9", "'", ",", " ", "'", "h", "i", "g", "h", "P", "r", "i", "c", "e", "'", ":", " ", "3", "0", "0", "0", ".", "0", "0", "4", "}", ",", " ", "{", "'", "p", "r", "i", "c", "e", "'", ":", " ", "1", "2", "9", "9", ".", "9", "9", "9", "}", "]">>)>>, <<"{", "'", "o", "f", "f", "e", "r", "s", "'", ":", " ", "[", "{", "'", "l", "o", "w", "P", "r", "i", "c", "e", "'", ":", " ", "'", "1", ",", "1", "9", "9", ".", "9", "9", "'", ",", " ", "'", "h", "i", "g", "h", "P", "r", "i", "c", "e", "'", ":", " ", "3", "0", "0", "0", ".", "0", "0", "4", "}", ",", " ", "{", "'", "p", "r", "i", "c", "e", "'", ":", " ", "1", "2", "9", "9", ".", "9", "9", "9", "}", "]", "}">>)))

FragLdInvalid ==
  ScriptPart(<<"<", "s", "c", "r", "i", "p", "t", " ", "t", "y", "p", "e", "=", "\"", "a", "p", "p", "l", "i", "c", "a", "t", "i", "o", "n", "/", "l", "d", "+", "j", "s", "o", "n", "\"", ">", "{", "\"", "p", "r", "i", "c", "e", "\"", ":", " ", "$", "1", ",", "4", "5", "0", ".", "0", "0", "}", "<", "/", "s", "c", "r", "i", "p", "t", ">">>,
    <<"a", "p", "p", "l", "i", "c", "a", "t", "i", "o", "n", "/", "l", "d", "+", "j", "s", "o", "n">>,
    <<"{", "\"", "p", "r", "i", "c", "e", "\"", ":", " ", "$", "1", ",", "4", "5", "0", ".", "0", "0", "}">>,
    LoadsError)

FragLdBroken ==
  ScriptPart(<<"<", "s", "c", "r", "i", "p", "t", " ", "t", "y", "p", "e", "=", "\"", "a", "p", "p", "l", "i", "c", "a", "t", "i", "o", "n", "/", "l", "d", "+", "j", "s", "o", "n", "\"", ">", "{", "\"", "p", "r", "i", "c", "e", "\"", ":", " ", "\"", "1", "2", "9", "9", ".", "0", "0", "\"", ",", "}", "<", "/", "s", "c", "r", "i", "p", "t", ">">>,
    <<"a", "p", "p", "l", "i", "c", "a", "t", "i", "o", "n", "/", "l", "d", "+", "j", "s", "o", "n">>,
    <<"{", "\"", "p", "r", "i", "c", "e", "\"", ":", " ", "\"", "1", "2", "9", "9", ".", "0", "0", "\"", ",", "}">>,
    LoadsError)

FragJsPrice ==
  ScriptPart(<<"<", "s", "c", "r", "i", "p", "t", " ", "t", "y", "p", "e", "=", "\"", "t", "e", "x", "t", "/", "j", "a", "v", "a", "s", "c", "r", "i", "p", "t", "\"", ">", "{", "\"", "p", "r", "i", "c", "e", "\"", ":", " ", "\"", "2", "0", "0", "0", "\"", "}", "<", "/", "s", "c", "r", "i", "p", "t", ">">>,
    <<"t", "e", "x", "t", "/", "j", "a", "v", "a", "s", "c", "r", "i", "p", "t">>,
    <<"{", "\"", "p", "r", "i", "c", "e", "\"", ":", " ", "\"", "2", "0", "0", "0", "\"", "}">>,
    LoadsOk(JDict(<<"price">>, <<JScalar(<<"2", "0", "0", "0">>)>>, <<"{", "'", "p", "r", "i", "c", "e", "'", ":", " ", "'", "2", "0", "0", "0", "'", "}">>)))

FragLdOdd ==
  ScriptPart(<<"<", "s", "c", "r", "i", "p", "t", " ", "t", "y", "p", "e", "=", "\"", "a", "p", "p", "l", "i", "c", "a", "t", "i", "o", "n", "/", "l", "d", "+", "j", "s", "o", "n", "\"", ">", "{", "\"", "p", "r", "i", "c", "e", "\"", ":", " ", "\"", "n", "/", "a", "\"", ",", " ", "\"", "p", "r", "i", "c", "e", "A", "m", "o", "u", "n", "t", "\"", ":", " ", "t", "r", "u", "e", ",", " ", "\"", "l", "o", "w", "P", "r", "i", "c", "e", "\"", ":", " ", "n", "u", "l", "l", ",", " ", "\"", "h", "i", "g", "h", "P", "r", "i", "c", "e", "\"", ":", " ", "{", "\"", "p", "r", "i", "c", "e", "\"", ":", " ", "\"", "2", ",", "9", "9", "9", ".", "9", "9", "6", "\"", "}", ",", " ", "\"", "s", "k", "u", "\"", ":", " ", "\"", "2", "5", "6", "G", "B", "\"", "}", "<", "/", "s", "c", "r", "i", "p", "t", ">">>,
    <<"a", "p", "p", "l", "i", "c", "a", "t", "i", "o", "n", "/", "l", "d", "+", "j", "s", "o", "n">>,
    <<"{", "\"", "p", "r", "i", "c", "e", "\"", ":", " ", "\"", "n", "/", "a", "\"", ",", " ", "\"", "p", "r", "i", "c", "e", "A", "m", "o", "u", "n", "t", "\"", ":", " ", "t", "r", "u", "e", ",", " ", "\"", "l", "o", "w", "P", "r", "i", "c", "e", "\"", ":", " ", "n", "u", "l", "l", ",", " ", "\"", "h", "i", "g", "h", "P", "r", "i", "c", "e", "\"", ":", " ", "{", "\"", "p", "r", "i", "c", "e", "\"", ":", " ", "\"", "2", ",", "9", "9", "9", ".", "9", "9", "6", "\"", "}", ",", " ", "\"", "s", "k", "u", "\"", ":", " ", "\"", "2", "5", "6", "G", "B", "\"", "}">>,
    LoadsOk(JDict(<<"price", "priceAmount", "lowPrice", "highPrice", "sku">>, <<JScalar(<<"n", "/", "a">>), JScalar(<<"T", "r", "u", "e">>), JScalar(<<"N", "o", "n", "e">>), JDict(<<"price">>, <<JScalar(<<"2", ",", "9", "9", "9", ".", "9", "9", "6">>)>>, <<"{", "'", "p", "r", "i", "c", "e", "'", ":", " ", "'", "2", ",", "9", "9", "9", ".", "9", "9", "6", "'", "}">>), JScalar(<<"2", "5", "6", "G", "B">>)>>, <<"{", "'", "p", "r", "i", "c", "e", "'", ":", " ", "'", "n", "/", "a", "'", ",", " ", "'", "p", "r", "i", "c", "e", "A", "m", "o", "u", "n", "t", "'", ":", " ", "T", "r", "u", "e", ",", " ", "'", "l", "o", "w", "P", "r", "i", "c", "e", "'", ":", " ", "N", "o", "n", "e", ",", " ", "'", "h", "i", "g", "h", "P", "r", "i", "c", "e", "'", ":", " ", "{", "'", "p", "r", "i", "c", "e", "'", ":", " ", "'", "2", ",", "9", "9", "9", ".", "9", "9", "6", "'", "}", ",", " ", "'", "s", "k", "u", "'", ":", " ", "'", "2", "5", "6", "G", "B", "'", "}">>)))

Fragments ==
  {FragCommaCents,
   FragPlainCents,
   FragPlain,
   FragUsdPlain,
   FragUsdComma,
   FragLow,
   FragMonthly,
   FragGBGlued,
   FragGBSpaced,
   FragPercent,
   FragPerMonth,
   FragGBPad38,
   FragGBPad39,
   FragGluedPad38,
   FragLdPrice,
   FragLdOffers,
   FragLdInvalid,
   FragLdBroken,
   FragJsPrice,
   FragLdOdd}


(***************************************************************************)
(* The extractor's inputs and its specification                            *)
(***************************************************************************)
MaxParts == 2

\* a page: up to MaxParts fragments, one after the other (none: the empty page)
Markups == UNION {[1..n -> Fragments] : n \in 0..MaxParts}

(***************************************************************************)
(* compare_and_alert                                                       *)
(***************************************************************************)
\* Python's None and a present value
None == <<>>
Some(v) == <<v>>
\* d.get(k) of a dict whose values are numbers
Get(d, k) == IF k \in DOMAIN d THEN Some(d[k]) ELSE None
\* {}
EmptyDict == <<>>

\* the largest of now_prices instead of the smallest
BestNowMax(now_prices) ==
  IF now_prices = <<>> THEN None
  ELSE Some(CHOOSE x \in Range(now_prices) : \A y \in Range(now_prices) : y <= x)

\* best_now = min(now_prices) if now_prices else None
BestNow(now_prices) ==
  IF now_prices = <<>> THEN None ELSE Some(Min(Range(now_prices)))

\* prev_best never read from the previous record
PrevBestAbsent(prev) == None

\* prev_best = prev.get("best_price") if prev else None
PrevBest(prev) ==
  IF DOMAIN prev # {} /\ "best_price" \in DOMAIN prev THEN prev.best_price ELSE None

PriceChange(prev_best, best_now) ==
  [reason |-> "price change", a |-> prev_best, b |-> best_now]
MeetsDesired(desired) ==
  [reason |-> "meets desired", a |-> desired, b |-> None]

\* alert_reasons, lines 150-155, with the desired threshold exclusive
AlertReasonsStrict(best_now, prev_best, desired) ==
  IF best_now = None THEN <<>>
  ELSE (IF prev_best = None \/ best_now # prev_best
          THEN <<PriceChange(prev_best, best_now)>> ELSE <<>>)
       \o (IF desired # None /\ best_now[1] < desired[1]
             THEN <<MeetsDesired(desired)>> ELSE <<>>)

\* alert_reasons, lines 150-155
AlertReasons(best_now, prev_best, desired) ==
  IF best_now = None THEN <<>>
  ELSE (IF prev_best = None \/ best_now # prev_best
          THEN <<PriceChange(prev_best, best_now)>> ELSE <<>>)
       \o (IF desired # None /\ best_now[1] <= desired[1]
             THEN <<MeetsDesired(desired)>> ELSE <<>>)

\* compare_and_alert up to the dispatch: the record it builds, its reasons and
\* `changed'.  When alert_reasons is not empty it calls post_to_discord once, and
\* returns only if that call returns.
compare_and_alert(store, prev, now_prices, now) ==
  LET best_now == BestNow(now_prices)
      desired == Get(store, "desired_price")
      alert_reasons == AlertReasons(best_now, PrevBest(prev), desired)
  IN [new_record |-> [last_checked |-> now,
                      last_prices |-> now_prices,
                      best_price |-> best_now,
                      desired_price |-> desired],
      alert_reasons |-> alert_reasons,
      changed |-> alert_reasons # <<>>]

\* {"name": name, "url": url, **new_record}
StateEntry(store, rec) ==
  [name |-> store.name, url |-> store.url,
   last_checked |-> rec.last_checked, last_prices |-> rec.last_prices,
   best_price |-> rec.best_price, desired_price |-> rec.desired_price]

(***************************************************************************)
(* Stores and the comparator's inputs                                      *)
(***************************************************************************)
Price1199_99 == 1199 * Unit + 990
Price1200_00 == 1200 * Unit
Price1299_00 == 1299 * Unit

UrlA == "https://shop-a.example/tab-s11-ultra"
UrlB == "https://shop-b.example/tab-s11-ultra"
UrlC == "https://shop-c.example/tab-s11-ultra"

StoreA == [name |-> "Shop A", url |-> UrlA]
StoreADesired == [name |-> "Shop A (deal)", url |-> UrlA, desired_price |-> Price1200_00]
StoreB ==
  [name |-> "Shop B", url |-> UrlB, desired_price |-> Price1200_00,
   must_match |-> [kind |-> "literal", text |-> <<"p", "r", "i", "c", "e">>]]
StoreBadPattern ==
  [name |-> "Shop C", url |-> UrlC, desired_price |-> Price1199_99,
   must_match |-> [kind |-> "invalid", text |-> <<"(">>]]
\* an entry without its required name
StoreNoName == [url |-> UrlC]

CmpValues == {Price1199_99, Price1200_00, Price1299_00}
\* what the extractor can return over CmpValues: ascending, no duplicates
CmpPriceLists == {sorted(S) : S \in SUBSET CmpValues}
CmpStores == {StoreA, StoreADesired, StoreBadPattern}
\* absent, or an entry an earlier cycle stored for the store
CmpPrevs(store) ==
  {EmptyDict} \cup
  {StateEntry(store, compare_and_alert(store, EmptyDict, pl, 0).new_record) :
     pl \in CmpPriceLists}

(***************************************************************************)
(* main: configuration, pages, persistence                                 *)
(***************************************************************************)
MaxRetailers == 2
MaxCycles == 2

Entries == {StoreA, StoreADesired, StoreB, StoreNoName}
\* conf["retailers"]: any list of up to MaxRetailers different entries; two
\* entries may name the same url
Configs ==
  {c \in UNION {[1..n -> Entries] : n \in 1..MaxRetailers} :
     \A i, j \in 1..Len(c) : i # j => c[i] # c[j]}

\* the pages a fetch can return, by name
Pages == {"page-1299", "page-1199", "page-none"}
PageMarkup(page) ==
  CASE page = "page-1299" -> <<FragLdPrice, FragMonthly>>
    [] page = "page-1199" -> <<FragLow, FragCommaCents>>
    [] page = "page-none" -> <<FragPlainCents>>

\* hashlib.sha256(url.encode("utf-8")).hexdigest()[:16]
RecKey(url) ==
  CASE url = UrlA -> "3666417cc4f4d452"
    [] url = UrlB -> "868db52ec9a5d5a9"
    [] url = UrlC -> "2a9ff263c20ec3b3"

\* page_matches_required(html, store.get('must_match')): no pattern passes, a
\* pattern re cannot compile passes, a literal is searched ignoring case
page_matches_required(h, store) ==
  IF "must_match" \notin DOMAIN store THEN TRUE
  ELSE IF store.must_match.text = <<>> THEN TRUE
  ELSE IF store.must_match.kind = "invalid" THEN TRUE
  ELSE ContainsFold(h, store.must_match.text)

FileMissing == [status |-> "missing", json |-> EmptyDict]
FileCorrupt == [status |-> "corrupt", json |-> EmptyDict]
FilePartial == [status |-> "partial", json |-> EmptyDict]
\* json.dump(data, f, indent=2, sort_keys=True), written out in full
FileOf(data) == [status |-> "ok", json |-> data]

\* load_state: no file, or a file json.load rejects, is the empty map
load_state(file) == IF file.status = "ok" THEN file.json ELSE EmptyDict

\* state.get(rec_key, {})
StateGet(st, key) == IF key \in DOMAIN st THEN st[key] ELSE EmptyDict

\* state[rec_key] = entry, every other key forgotten
StatePutOnly(st, key, entry) == [k \in {key} |-> entry]
\* state[rec_key] = entry
StatePut(st, key, entry) ==
  [k \in DOMAIN st \cup {key} |-> IF k = key THEN entry ELSE st[k]]

NoPending == [active |-> FALSE, cycle |-> 0, page |-> "", reasons |-> <<>>]

store == conf[idx]
rec_key == RecKey(store.url)

ExIdle == markup = <<>> /\ ex_pc = "idle" /\ ex_out = <<>>
CmpIdle ==
  /\ cmp_store = EmptyDict /\ cmp_prev = EmptyDict /\ cmp_prices = <<>>
  /\ cmp_pc = "idle" /\ cmp_ret = EmptyDict /\ cmp_reasons = <<>> /\ cmp_posts = 0
  /\ cmp_ret2 = EmptyDict /\ cmp_reasons2 = <<>> /\ cmp_posts2 = 0
MainIdle ==
  /\ conf = <<>> /\ pc = "idle" /\ idx = 0 /\ state = EmptyDict
  /\ state_file = FileMissing /\ tmp_file = FileMissing
  /\ html = "" /\ prices = <<>> /\ new_record = EmptyDict /\ reasons = <<>>
  /\ clock = 0 /\ cycle = 0
HistIdle ==
  /\ h_start_file = FileMissing /\ h_writes = 0 /\ h_checked = <<>>
  /\ h_delayed = FALSE /\ h_fetches = 0 /\ h_pending = <<>>
  /\ h_alert = <<>>

(***************************************************************************)
(* Spec: runs of main                                                      *)
(***************************************************************************)
other_vars == <<ex_vars, cmp_vars>>
disk_vars == <<state_file, tmp_file>>
local_vars == <<html, prices, new_record, reasons>>

Init ==
  /\ ExIdle /\ CmpIdle
  /\ conf \in Configs
  /\ pc = "start" /\ idx = 0 /\ state = EmptyDict
  /\ state_file \in {FileMissing, FileCorrupt}
  /\ tmp_file = FileMissing
  /\ html = "" /\ prices = <<>> /\ new_record = EmptyDict /\ reasons = <<>>
  /\ clock = 1 /\ cycle = 1
  /\ h_start_file = state_file /\ h_writes = 0 /\ h_checked = <<>>
  /\ h_delayed = FALSE /\ h_fetches = 0
  /\ h_pending = [i \in 1..Len(conf) |-> NoPending]
  /\ h_alert = <<>>

\* the end of one loop iteration, whose locals are dead from here on
NextRetailer ==
  /\ idx' = idx + 1
  /\ pc' = "loop"
  /\ clock' = clock + 1
  /\ html' = "" /\ prices' = <<>> /\ new_record' = EmptyDict /\ reasons' = <<>>

\* lines 178-180: load_config, load_state
Start ==
  /\ pc = "start"
  /\ state' = load_state(state_file)
  /\ idx' = 1
  /\ pc' = "loop"
  /\ h_start_file' = state_file
  /\ h_writes' = 0 /\ h_checked' = <<>> /\ h_delayed' = FALSE /\ h_fetches' = 0
  /\ UNCHANGED <<other_vars, conf, disk_vars, local_vars, clock, cycle,
                 h_pending, h_alert>>

\* lines 182-185: the next store, its name and its url
LoopEnter ==
  /\ pc = "loop" /\ idx <= Len(conf)
  /\ {"name", "url"} \subseteq DOMAIN store
  /\ pc' = "fetch"
  /\ h_checked' = Append(h_checked, idx)
  /\ h_alert' = <<>>
  /\ UNCHANGED <<other_vars, conf, idx, state, disk_vars, local_vars, clock,
                 cycle, h_start_file, h_writes, h_delayed, h_fetches, h_pending>>

\* lines 183-184 stand before the try: a missing key is a KeyError main raises
LoopKeyError ==
  /\ pc = "loop" /\ idx <= Len(conf)
  /\ ~({"name", "url"} \subseteq DOMAIN store)
  /\ pc' = "crashed"
  /\ h_alert' = <<>>
  /\ UNCHANGED <<other_vars, conf, idx, state, disk_vars, local_vars, clock,
                 cycle, h_start_file, h_writes, h_checked, h_delayed, h_fetches,
                 h_pending>>

\* the for loop is exhausted
LoopExit ==
  /\ pc = "loop" /\ idx > Len(conf)
  /\ pc' = "save"
  /\ h_alert' = <<>>
  /\ UNCHANGED <<other_vars, conf, idx, state, disk_vars, local_vars, clock,
                 cycle, h_start_file, h_writes, h_checked, h_delayed, h_fetches,
                 h_pending>>

\* line 187: fetch returns a page
FetchOk ==
  /\ pc = "fetch"
  /\ \E page \in Pages : html' = page
  /\ pc' = "match"
  /\ h_fetches' = h_fetches + 1 /\ h_delayed' = FALSE
  /\ UNCHANGED <<other_vars, conf, idx, state, disk_vars, prices, new_record,
                 reasons, clock, cycle, h_start_file, h_writes, h_checked,
                 h_pending, h_alert>>

\* line 187: fetch raises (network error, HTTP status); lines 198-199 log it
FetchFail ==
  /\ pc = "fetch"
  /\ NextRetailer
  /\ h_fetches' = h_fetches + 1 /\ h_delayed' = FALSE
  /\ UNCHANGED <<other_vars, conf, state, disk_vars, cycle, h_start_file,
                 h_writes, h_checked, h_pending, h_alert>>

\* lines 188-190: must_match not found, continue
SkipMustMatch ==
  /\ pc = "match"
  /\ ~page_matches_required(Render(PageMarkup(html)), store)
  /\ NextRetailer
  /\ UNCHANGED <<other_vars, conf, state, disk_vars, cycle, hist_vars>>

\* lines 188, 191
Extract ==
  /\ pc = "match"
  /\ page_matches_required(Render(PageMarkup(html)), store)
  /\ prices' = extract_price_candidates(PageMarkup(html))
  /\ pc' = "compare"
  /\ UNCHANGED <<other_vars, conf, idx, state, disk_vars, html, new_record,
                 reasons, clock, cycle, hist_vars>>

\* lines 192-194: compare_and_alert returns (no alert, or the dispatch returned)
CompareReturns ==
  /\ pc = "compare"
  /\ LET r == compare_and_alert(store, StateGet(state, rec_key), prices, clock)
     IN /\ new_record' = r.new_record
        /\ reasons' = r.alert_reasons
        /\ h_alert' = r.alert_reasons
  /\ pc' = "store"
  /\ UNCHANGED <<other_vars, conf, idx, state, disk_vars, html, prices, clock,
                 cycle, h_start_file, h_writes, h_checked, h_delayed, h_fetches,
                 h_pending>>

\* lines 192-194, 170, 198-199: post_to_discord raises inside compare_and_alert
CompareRaises ==
  /\ pc = "compare"
  /\ LET r == compare_and_alert(store, StateGet(state, rec_key), prices, clock)
     IN /\ r.alert_reasons # <<>>
        /\ h_alert' = r.alert_reasons
        /\ h_pending' = [h_pending EXCEPT ![idx] =
             [active |-> TRUE, cycle |-> cycle, page |-> html,
              reasons |-> r.alert_reasons]]
  /\ NextRetailer
  /\ UNCHANGED <<other_vars, conf, state, disk_vars, cycle, h_start_file,
                 h_writes, h_checked, h_delayed, h_fetches>>

\* lines 195-196
Store ==
  /\ pc = "store"
  /\ state' = StatePut(state, rec_key, StateEntry(store, new_record))
  /\ pc' = "sleep"
  /\ h_pending' = [h_pending EXCEPT ![idx] = NoPending]
  /\ UNCHANGED <<other_vars, conf, idx, disk_vars, local_vars, clock, cycle,
                 h_start_file, h_writes, h_checked, h_delayed, h_fetches, h_alert>>

\* line 197: time.sleep(1.0)
Sleep ==
  /\ pc = "sleep"
  /\ h_delayed' = TRUE
  /\ NextRetailer
  /\ UNCHANGED <<other_vars, conf, state, disk_vars, cycle, h_start_file,
                 h_writes, h_checked, h_fetches, h_pending, h_alert>>

\* lines 37-38: the temporary file is opened for writing
SaveOpen ==
  /\ pc = "save"
  /\ tmp_file' = FilePartial
  /\ pc' = "dump"
  /\ UNCHANGED <<other_vars, conf, idx, state, state_file, local_vars, clock,
                 cycle, hist_vars>>

\* line 39: json.dump completes and the file is closed
SaveDump ==
  /\ pc = "dump"
  /\ tmp_file' = FileOf(state)
  /\ pc' = "replace"
  /\ UNCHANGED <<other_vars, conf, idx, state, state_file, local_vars, clock,
                 cycle, hist_vars>>

\* line 40: os.replace(tmp, path); line 202: main returns 0
SaveReplace ==
  /\ pc = "replace"
  /\ state_file' = tmp_file
  /\ tmp_file' = FileMissing
  /\ h_writes' = h_writes + 1
  /\ pc' = "done"
  /\ UNCHANGED <<other_vars, conf, idx, state, local_vars, clock, cycle,
                 h_start_file, h_checked, h_delayed, h_fetches, h_pending,
                 h_alert>>

\* the program is started again later, as a new process
NextRun ==
  /\ pc \in {"done", "crashed"}
  /\ cycle < MaxCycles
  /\ cycle' = cycle + 1
  /\ clock' = clock + 1
  /\ pc' = "start"
  /\ idx' = 0 /\ state' = EmptyDict
  /\ html' = "" /\ prices' = <<>> /\ new_record' = EmptyDict /\ reasons' = <<>>
  /\ UNCHANGED <<other_vars, conf, disk_vars, hist_vars>>

Next ==
  \/ Start \/ LoopEnter \/ LoopKeyError \/ LoopExit
  \/ FetchOk \/ FetchFail \/ SkipMustMatch \/ Extract
  \/ CompareReturns \/ CompareRaises \/ Store \/ Sleep
  \/ SaveOpen \/ SaveDump \/ SaveReplace \/ NextRun

Spec == Init /\ [][Next]_vars

(***************************************************************************)
(* SpecExtract: one call of extract_price_candidates on any page           *)
(***************************************************************************)
InitExtract ==
  /\ markup \in Markups /\ ex_pc = "call" /\ ex_out = <<>>
  /\ CmpIdle /\ MainIdle /\ HistIdle

\* Every statement of the function that can raise stands inside a try whose
\* handler swallows the exception (lines 54-76, 89-93), so the call returns.
ExtractCall ==
  /\ ex_pc = "call"
  /\ ex_out' = extract_price_candidates(markup)
  /\ ex_pc' = "returned"
  /\ UNCHANGED <<markup, cmp_vars, main_vars, hist_vars>>

NextExtract == ExtractCall

SpecExtract == InitExtract /\ [][NextExtract]_vars

(***************************************************************************)
(* SpecCompare: compare_and_alert, then again on the record it returned    *)
(***************************************************************************)
InitCompare ==
  /\ cmp_store \in CmpStores
  /\ cmp_prev \in CmpPrevs(cmp_store)
  /\ cmp_prices \in CmpPriceLists
  /\ cmp_pc = "call"
  /\ cmp_ret = EmptyDict /\ cmp_reasons = <<>> /\ cmp_posts = 0
  /\ cmp_ret2 = EmptyDict /\ cmp_reasons2 = <<>> /\ cmp_posts2 = 0
  /\ ExIdle /\ MainIdle /\ HistIdle

FirstCall == compare_and_alert(cmp_store, cmp_prev, cmp_prices, 1)
\* main stores the returned record under the store's key (line 195) and the next
\* run reads it back as prev (line 193)
SecondCall ==
  compare_and_alert(cmp_store, StateEntry(cmp_store, cmp_ret.new_record),
                    cmp_prices, 2)

\* the call returns: nothing to dispatch, or post_to_discord returned
CmpReturns ==
  /\ cmp_pc = "call"
  /\ cmp_ret' = [new_record |-> FirstCall.new_record, changed |-> FirstCall.changed]
  /\ cmp_reasons' = FirstCall.alert_reasons
  /\ cmp_posts' = IF FirstCall.alert_reasons # <<>> THEN 1 ELSE 0
  /\ cmp_pc' = "returned"
  /\ UNCHANGED <<cmp_store, cmp_prev, cmp_prices, cmp_ret2, cmp_reasons2,
                 cmp_posts2, ex_vars, main_vars, hist_vars>>

\* post_to_discord raises (line 119) and the exception leaves compare_and_alert
CmpRaises ==
  /\ cmp_pc = "call"
  /\ FirstCall.alert_reasons # <<>>
  /\ cmp_reasons' = FirstCall.alert_reasons
  /\ cmp_posts' = 1
  /\ cmp_pc' = "raised"
  /\ UNCHANGED <<cmp_store, cmp_prev, cmp_prices, cmp_ret, cmp_ret2, cmp_reasons2,
                 cmp_posts2, ex_vars, main_vars, hist_vars>>

CmpAgainReturns ==
  /\ cmp_pc = "returned"
  /\ cmp_ret2' = [new_record |-> SecondCall.new_record, changed |-> SecondCall.changed]
  /\ cmp_reasons2' = SecondCall.alert_reasons
  /\ cmp_posts2' = IF SecondCall.alert_reasons # <<>> THEN 1 ELSE 0
  /\ cmp_pc' = "returned2"
  /\ UNCHANGED <<cmp_store, cmp_prev, cmp_prices, cmp_ret, cmp_reasons, cmp_posts,
                 ex_vars, main_vars, hist_vars>>

CmpAgainRaises ==
  /\ cmp_pc = "returned"
  /\ SecondCall.alert_reasons # <<>>
  /\ cmp_reasons2' = SecondCall.alert_reasons
  /\ cmp_posts2' = 1
  /\ cmp_pc' = "raised2"
  /\ UNCHANGED <<cmp_store, cmp_prev, cmp_prices, cmp_ret, cmp_reasons, cmp_posts,
                 cmp_ret2, ex_vars, main_vars, hist_vars>>

NextCompare == CmpReturns \/ CmpRaises \/ CmpAgainReturns \/ CmpAgainRaises

SpecCompare == InitCompare /\ [][NextCompare]_vars

(***************************************************************************)
(* Properties of the extractor (SpecExtract)                               *)
(***************************************************************************)
Cent == Unit \div 100
IsAscending(s) == \A i, j \in 1..Len(s) : i < j => s[i] < s[j]
InBandValue(v) == PriceFloor * Unit <= v /\ v <= PriceCeil * Unit

\* no ld+json block of the page parses and the text holds no priced amount
NothingToParse(m) ==
  /\ \A i \in 1..Len(m) : IsLdScript(m[i]) => ~m[i].loads.ok
  /\ MatchStarts(Render(m)) = {}

\* C1: for every markup, extract_price_candidates returns a list whose values
\* all lie in [1100, 3000] and have at most two decimal places, with no value
\* twice and in strictly ascending order; the call never raises, and empty or
\* unparseable markup gives the empty list.
C1_OutputWellFormed ==
  /\ ex_pc # "raised"
  /\ ex_pc = "returned" =>
       /\ \A i \in 1..Len(ex_out) : InBandValue(ex_out[i]) /\ ex_out[i] % Cent = 0
       /\ IsAscending(ex_out)
       /\ NothingToParse(markup) => ex_out = <<>>

\* a page with three or more prices in the output, one of them collected from
\* structured data with a third decimal place
C1_Witness ==
  /\ ex_pc = "returned"
  /\ Len(ex_out) >= 3
  /\ \E i \in 1..Len(StructuredPass(markup)) :
       LET c == StructuredPass(markup)[i]
       IN InBand(c) /\ c.val % Cent # 0 /\ round2(c.val) \in Range(ex_out)

\* a deny-listed word occurs somewhere in the 40-character window of match m,
\* whatever stands next to it
DenyWordNear(h, m) == \E w \in DenyWords : ContainsFold(ContextOf(h, m), w)

\* the value of match number i of the text pass over h
MatchValue(h, i) == ParseFloat(SelectNot(finditer(h, 1)[i].raw, ","))

\* the value v reaches the output by another way than match i of the text pass:
\* from structured data, or from a match with no deny-listed word near it
OtherSource(m, i, v) ==
  LET h == Render(m)
  IN \/ \E k \in 1..Len(StructuredPass(m)) :
          InBand(StructuredPass(m)[k]) /\ round2(StructuredPass(m)[k].val) = v
     \/ \E j \in 1..Len(finditer(h, 1)) :
          /\ j # i
          /\ ~DenyWordNear(h, finditer(h, 1)[j])
          /\ round2(MatchValue(h, j).val) = v

\* C4: a price candidate (here: of the text pass) with a deny-listed word within
\* 40 characters before or after it is never in the output, even when it is in
\* [1100, 3000], whatever characters stand next to the word.
C4_DenyListedNeverOutput ==
  ex_pc = "returned" =>
    LET h == Render(markup)
    IN \A i \in 1..Len(finditer(h, 1)) :
         (/\ InBand(MatchValue(h, i))
          /\ DenyWordNear(h, finditer(h, 1)[i])
          /\ ~OtherSource(markup, i, round2(MatchValue(h, i).val)))
         => round2(MatchValue(h, i).val) \notin Range(ex_out)

\* [0-9]+ from p: the position after the longest run of digits
DigitsEnd(s, p) ==
  CHOOSE q \in p..(Len(s) + 1) :
    /\ \A r \in p..(q - 1) : s[r] \in Digit
    /\ q = Len(s) + 1 \/ s[q] \notin Digit

\* a dollar amount as the specification writes it, at p: `$' or `USD', then the
\* digits with optional thousands separators and optional cents.  The position
\* of the first digit and the position after the amount; <<0, 0>> when there is
\* none.
WrittenAmount(s, p) ==
  LET usd == WordBoundary(s, p) /\ LitAt(s, p, USD)
      q == SkipSpace(s, p + 3)
      g == IF usd /\ q <= Len(s) /\ s[q] = "$" THEN SkipSpace(s, q + 1)
           ELSE IF p <= Len(s) /\ s[p] = "$" THEN SkipSpace(s, p + 1)
           ELSE IF usd THEN q
           ELSE 0
  IN IF g = 0 \/ ~IsDigitAt(s, g) THEN <<0, 0>>
     ELSE <<g, CentsGroup(s, CommaGroups(s, DigitsEnd(s, g)))>>

\* C8: every in-range amount written with a `$' or `USD' prefix, with or without
\* thousands separators and cents, and with no deny-listed word in its
\* 40-character window, is in the output with its full value.
C8_WrittenAmountsCollected ==
  ex_pc = "returned" =>
    LET h == Render(markup)
    IN \A p \in 1..Len(h) :
         LET a == WrittenAmount(h, p)
             v == ParseFloat(SelectNot(Slice(h, a[1], a[2]), ","))
             around == [start |-> p, end |-> a[2], raw |-> <<>>]
         IN (a[1] # 0 /\ InBand(v) /\ ~DenyWordNear(h, around))
            => round2(v.val) \in Range(ex_out)

(***************************************************************************)
(* Properties of the comparator (SpecCompare)                              *)
(***************************************************************************)
CmpBestNow == IF cmp_prices = <<>> THEN None ELSE Some(Min(Range(cmp_prices)))
CmpPrevBest == IF cmp_prev = EmptyDict THEN None ELSE cmp_prev.best_price
CmpDesired ==
  IF "desired_price" \in DOMAIN cmp_store THEN Some(cmp_store.desired_price) ELSE None
CmpMeetsDesired ==
  CmpBestNow # None /\ CmpDesired # None /\ CmpBestNow[1] <= CmpDesired[1]
\* the alert condition as the specification states it
CmpShouldAlert ==
  /\ CmpBestNow # None
  /\ \/ CmpPrevBest = None
     \/ CmpBestNow[1] # CmpPrevBest[1]
     \/ CmpMeetsDesired

\* C2: compare_and_alert invokes the notification collaborator exactly once if
\* and only if bestNow is present and (prevBest is absent, or bestNow differs
\* from prevBest, or desired_price is set and bestNow <= desired_price); it
\* then returns alertFired = true, and otherwise sends nothing and returns
\* alertFired = false.  An absent previous record with non-empty prices always
\* alerts; an equal prevBest with no desired price never does.
C2_AlertIffCondition ==
  cmp_pc \in {"returned", "raised"} =>
    /\ cmp_posts = (IF CmpShouldAlert THEN 1 ELSE 0)
    /\ cmp_pc = "returned" => cmp_ret.changed = CmpShouldAlert
    /\ cmp_pc = "raised" => CmpShouldAlert
    /\ (cmp_prev = EmptyDict /\ cmp_prices # <<>>) => cmp_posts = 1
    /\ (CmpPrevBest # None /\ CmpPrevBest = CmpBestNow /\ CmpDesired = None)
         => cmp_posts = 0 /\ cmp_pc = "returned" /\ ~cmp_ret.changed

\* the inclusive boundary: the best price equals both the previous best and the
\* desired price, and the alert fires for the desired threshold alone
C2_Witness ==
  /\ cmp_pc = "returned"
  /\ cmp_ret.changed
  /\ CmpPrevBest = CmpBestNow
  /\ CmpDesired = CmpBestNow
  /\ cmp_reasons = <<MeetsDesired(CmpDesired)>>

\* C3 as stated: with or without desired_price, the second run on the record the
\* first run returned fires no alert and sends no notification.
C3_SecondRunSilent ==
  cmp_pc \in {"returned2", "raised2"} =>
    /\ cmp_posts2 = 0
    /\ cmp_pc = "returned2"
    /\ ~cmp_ret2.changed

\* C3 amended: the second run on the record the first run returned never fires
\* the price-change reason; it fires the desired-threshold reason, and only
\* that, exactly when desired_price is set and bestNow <= desired_price, and is
\* silent otherwise.
C3_SecondRunOnlyDesired ==
  cmp_pc \in {"returned2", "raised2"} =>
    /\ cmp_reasons2 = (IF CmpMeetsDesired THEN <<MeetsDesired(CmpDesired)>> ELSE <<>>)
    /\ cmp_posts2 = (IF CmpMeetsDesired THEN 1 ELSE 0)
    /\ cmp_pc = "returned2" => cmp_ret2.changed = CmpMeetsDesired
    /\ cmp_pc = "raised2" => CmpMeetsDesired

\* the first run alerted for a store with a desired price that is not met, and
\* the second run was silent
C3_Witness ==
  /\ cmp_pc = "returned2"
  /\ cmp_posts = 1
  /\ CmpDesired # None
  /\ ~CmpMeetsDesired
  /\ cmp_posts2 = 0
  /\ ~cmp_ret2.changed

(***************************************************************************)
(* Properties of the run loop (Spec)                                       *)
(***************************************************************************)
InRun == pc \notin {"start", "idle"}
RunEnded == pc \in {"done", "crashed"}
AllIndices == [i \in 1..Len(conf) |-> i]

\* C5: no failure in a single retailer's check aborts the run: fetch error,
\* exception, dispatch error, must_match mismatch or a malformed entry; every
\* retailer after it is still checked, in configuration order, and the run
\* reaches the state-save step and returns.
C5_FailureNeverAborts ==
  /\ pc # "crashed"
  /\ pc \in {"save", "dump", "replace", "done"} => h_checked = AllIndices

\* C6: between any two successive fetches of a run the politeness delay is
\* observed, whether the earlier check succeeded, was skipped or failed.
C6_DelayBetweenFetches ==
  [][(h_fetches' = h_fetches + 1 /\ h_fetches >= 1) => h_delayed]_vars

EntryFields ==
  {"name", "url", "last_checked", "last_prices", "best_price", "desired_price"}
EntryWellFormed(e) ==
  /\ DOMAIN e = EntryFields
  /\ e.best_price =
       (IF e.last_prices = <<>> THEN None ELSE Some(Min(Range(e.last_prices))))
  /\ IsAscending(e.last_prices)
  /\ \A i \in 1..Len(e.last_prices) : InBandValue(e.last_prices[i])
MapWellFormed(st) == \A k \in DOMAIN st : EntryWellFormed(st[k])

\* C7: starting from an empty state map, every record of the state map, in
\* process and on disk, has best_price = min(last_prices) when last_prices is
\* not empty and absent otherwise, and last_prices ascending, without
\* duplicates and within [1100, 3000]; a check replaces the store's record
\* wholesale: every field is the current cycle's.
C7_RecordsWellFormed ==
  /\ MapWellFormed(state)
  /\ MapWellFormed(load_state(state_file))
  /\ pc = "sleep" =>
       /\ rec_key \in DOMAIN state
       /\ state[rec_key] =
            [name |-> store.name, url |-> store.url, last_checked |-> clock,
             last_prices |-> prices,
             best_price |-> (IF prices = <<>> THEN None ELSE Some(Min(Range(prices)))),
             desired_price |-> Get(store, "desired_price")]

\* a later cycle has just replaced a record that another entry with the same
\* url had stored: every field but the url differs from the one on disk
C7_Witness ==
  /\ pc = "sleep"
  /\ cycle > 1
  /\ Len(prices) >= 2
  /\ rec_key \in DOMAIN load_state(state_file)
  /\ LET old == load_state(state_file)[rec_key]
         new == state[rec_key]
     IN /\ old.name # new.name
        /\ old.last_checked # new.last_checked
        /\ old.last_prices # new.last_prices
        /\ old.best_price # new.best_price
        /\ old.desired_price # new.desired_price

\* C9: in every run durable storage is written exactly once, only after every
\* retailer has been processed; before that write it is what it was when the
\* run started; the write is a rename of a fully written temporary file, so the
\* durable state is never partially written.
C9_SavedExactlyOnce ==
  /\ state_file.status # "partial"
  /\ InRun =>
       /\ h_writes <= 1
       /\ h_writes = 0 => state_file = h_start_file
       /\ h_writes = 1 => idx > Len(conf) /\ state_file = FileOf(state)
       /\ RunEnded => h_writes = 1

\* the state map changes only when a check stores its record (line 195), and
\* then only under the key of the store being checked
FrameStep ==
  /\ (InRun /\ ~RunEnded /\ pc # "store") => state' = state
  /\ pc = "store" =>
       /\ DOMAIN state' = DOMAIN state \cup {rec_key}
       /\ \A k \in DOMAIN state : k # rec_key => state'[k] = state[k]

\* no other entry of the configuration has the key of entry i
KeyNotShared(i) ==
  \A j \in 1..Len(conf) :
    (j # i /\ "url" \in DOMAIN conf[j]) => RecKey(conf[j].url) # RecKey(conf[i].url)

\* the dispatch for the store failed in the previous cycle, on the same page
PendingRetry ==
  /\ pc = "compare"
  /\ h_pending[idx].active
  /\ h_pending[idx].cycle + 1 = cycle
  /\ h_pending[idx].page = html

\* C10 as stated: a check that is skipped or fails leaves the store's entry as
\* it was, no check changes the entry of another key, and after a failed
\* dispatch the same alert fires again on the next cycle with the same page.
C10_FrameAndRetry ==
  /\ [][FrameStep]_vars
  /\ [][PendingRetry => (h_alert' # <<>> /\ h_alert' = h_pending[idx].reasons)]_vars

\* C10 amended: the same, the alert firing again provided no other configured
\* retailer shares the store's URL-derived key.
C10_FrameAndRetryUnsharedKey ==
  /\ [][FrameStep]_vars
  /\ [][(PendingRetry /\ KeyNotShared(idx))
          => (h_alert' # <<>> /\ h_alert' = h_pending[idx].reasons)]_vars

\* the dispatch failed last cycle, the key is not shared, another store's entry
\* is in the map, and the same alert has just been raised again on the same page
C10_Witness ==
  /\ pc = "store"
  /\ h_pending[idx].active
  /\ h_pending[idx].cycle + 1 = cycle
  /\ h_pending[idx].page = html
  /\ KeyNotShared(idx)
  /\ h_alert # <<>>
  /\ h_alert = h_pending[idx].reasons
  /\ DOMAIN state \ {rec_key} # {}
  /\ rec_key \notin DOMAIN state

====
